---- MODULE Spec2Model ----
(***************************************************************************)
(* Model of the lldb-toybox synthetic children providers: a chained hash   *)
(* table in the inspected process (LibCXXHashContainer), the lazy          *)
(* enumeration cache (IterableContainerSynthetic), the natural order       *)
(* reconstruction (SortingSyntheticAdapter) and the range pager            *)
(* (PagingSyntheticAdapter).                                               *)
(*                                                                         *)
(* Python's None is the empty sequence <<>> and a present value x is the   *)
(* one-element sequence <<x>>.  An operation is an operator from the       *)
(* objects' fields (a record h) to the new fields, the returned value and  *)
(* the exception raised, so that a wrapper's method can call the wrapped   *)
(* object's method as the code does.                                       *)
(***************************************************************************)
EXTENDS Integers, Sequences, FiniteSets, TLC

VARIABLES
    mem,              \* the hash table in the memory of the stopped process
    stack,            \* which object the host holds as the outermost provider
    table,            \* LibCXXHashContainer.table
    error,            \* IterableContainerSynthetic.error
    size,             \* IterableContainerSynthetic.size
    iterator,         \* IterableContainerSynthetic.iterator
    cached_children,  \* IterableContainerSynthetic.cached_children
    children,         \* SortingSyntheticAdapter.children
    total,            \* PagingSyntheticAdapter.total
    levels,           \* PagingSyntheticAdapter.levels
    limits,           \* PagingSyntheticAdapter.limits
    calls,            \* calls made on the container since the last update()
    last,             \* the host's last call and what it got back
    processes,        \* the debugger's processes: their threads and stop id
    per,              \* Cache.per
    cache,            \* Cache.cache, in the order of insertion of its keys
    Cache_last,       \* Cache.last
    scripted_t,       \* scripted.py: _scripted_t
    scripted_stack,   \* scripted.py: _scripted_stack, the objects by their number
    synthetics,       \* the ScriptedSynthetic objects constructed so far
    scripted_values   \* the values create_scripted_value has created

vars == <<mem, stack, table, error, size, iterator, cached_children,
          children, total, levels, limits, calls, last,
          processes, per, cache, Cache_last,
          scripted_t, scripted_stack, synthetics, scripted_values>>

----------------------------------------------------------------------------
(* Bounds of the model *)

\* Largest number of nodes of a table
MaxElems == 3

\* Largest number of container.get_size() reads followed between two updates
MaxCalls == 3

None == <<>>

Some(x) == <<x>>

\* Addresses of the nodes' values in the process
Addrs == 1 .. MaxElems

\* A key is not integral (None) or carries the integer the order is built on
Keys == {None, Some(5), Some(12)}

\* Bucket counts the process may hold: 17 is prime, 4 a power of two, 6 neither
BucketCounts == {4, 6, 17}

\* Indices the host may ask for
Indices == -1 .. MaxElems + 1

Range(s) == {s[i] : i \in DOMAIN s}

\* The node value the chained table's iterator yields for a set
Element(addr, key) == [addr |-> addr, key |-> key, name |-> "__value_"]

\* Node chains of n nodes: sequences of values at pairwise distinct addresses
RECURSIVE ChainsOf(_)
ChainsOf(n) ==
    IF n = 0 THEN {<<>>}
    ELSE {Append(c, Element(a, k)) :
              c \in ChainsOf(n - 1), a \in Addrs, k \in Keys} \
         {Append(c, Element(c[i].addr, k)) :
              c \in {d \in ChainsOf(n - 1) : d # <<>>}, i \in 1 .. n - 1, k \in Keys}

Chains == UNION {ChainsOf(n) : n \in 0 .. MaxElems}

\* The tables of a process: the size field counts the nodes of the chain
Tables ==
    {[bucket_count |-> b, size |-> Len(c), nodes |-> c] :
        b \in BucketCounts, c \in Chains}

\* Largest number of nodes of the tables the pager is walked over
MaxTotal == 9

\* Largest capacity whose control bytes the model enumerates
MaxSlots == 3

\* Control bytes: 128 an empty slot, 254 a deleted one, 127 a full slot (the
\* 7 bits of the hash)
CtrlBytes == {128, 254, 127}

\* Capacities of an open addressing table: 0, 1 and 3 have the form 2^k - 1,
\* 2 and 8 have not
Capacities == (0 .. MaxSlots) \cup {8}

\* The size_ field as stored: the element count shifted left by one, and a flag bit
SizeFields == 0 .. 2 * MaxSlots + 3

\* The slot at an index of the slot array, the 'value' member of a flat map's
\* slot (at the slot's address), and what the slot of a node container points to
Slot(index) ==
    [addr |-> index + 1, key |-> None, name |-> "[" \o ToString(index) \o "]",
     type |-> "slot_type"]

SlotValue(slot) ==
    [addr |-> slot.addr, key |-> None, name |-> "value", type |-> "value_type"]

SlotTarget(slot) ==
    [addr |-> slot.addr + 100, key |-> None, name |-> "*", type |-> "pointee"]

\* Control arrays of a capacity: every array of the small capacities, one
\* array of full slots for the others
RECURSIVE CtrlArrays(_)
CtrlArrays(capacity) ==
    IF capacity = 0 THEN {<<>>}
    ELSE IF capacity > MaxSlots THEN {[i \in 1 .. capacity |-> 127]}
    ELSE {Append(c, b) : c \in CtrlArrays(capacity - 1), b \in CtrlBytes}

\* The open addressing tables of a process
AbseilTables ==
    UNION {{[capacity_ |-> c, size_ |-> z, control_ |-> ctrl, is_flat |-> f, is_map |-> m] :
               z \in SizeFields, ctrl \in CtrlArrays(c), f \in BOOLEAN, m \in BOOLEAN} :
           c \in Capacities}

\* Largest number of nodes of a map's table
MaxPairs == 2

\* Number of processes of the debugger
MaxProcs == 2

\* Largest stop id of a process
MaxStops == 2

\* The unique ids of the processes
Procs == 1 .. MaxProcs

\* The keys of a map's elements at an address: a value of a basic type, or a
\* value of a type of one field of a basic type; either may have a synthetic
\* children provider registered for its type
MapKeys(addr) ==
    {[addr |-> addr, key |-> k, name |-> "first", synthetic |-> s] :
        k \in {None, Some(5)}, s \in BOOLEAN}
    \cup {[addr |-> addr, key |-> None, name |-> "first", synthetic |-> s,
           fields |-> <<[addr |-> addr, key |-> k, name |-> "value"]>>] :
        k \in {None, Some(5)}, s \in BOOLEAN}

\* The mapped value lies behind the key in the pair
SecondOffset == 10

\* The pair the chained table's iterator yields for a map: value.__cc_
Pair(first) ==
    [addr |-> first.addr, key |-> None, name |-> "__cc_", first |-> first,
     second |-> [addr |-> first.addr + SecondOffset, key |-> None, name |-> "second"]]

\* The pairs a chain can be extended by: those at an address it does not hold
FreshPairs(c) ==
    {Pair(k) : k \in UNION {MapKeys(a) :
                               a \in (1 .. MaxPairs) \ {c[i].addr : i \in DOMAIN c}}}

\* Node chains of n pairs at pairwise distinct addresses
RECURSIVE MapChainsOf(_)
MapChainsOf(n) ==
    IF n = 0 THEN {<<>>}
    ELSE UNION {{<<p>> \o c : p \in FreshPairs(c)} : c \in MapChainsOf(n - 1)}

MapChains == UNION {MapChainsOf(n) : n \in 0 .. MaxPairs}

\* The tables of a process that are maps, in 17 buckets
MapTables ==
    {[bucket_count |-> 17, size |-> Len(c), nodes |-> c, is_map |-> TRUE] : c \in MapChains}

----------------------------------------------------------------------------
(* lib/utils.py *)

RECURSIVE BitAnd(_, _)
BitAnd(a, b) ==
    IF a = 0 \/ b = 0 THEN 0
    ELSE (IF a % 2 = 1 /\ b % 2 = 1 THEN 1 ELSE 0) + 2 * BitAnd(a \div 2, b \div 2)

\* (number + 1) & number == 0
is_pow2(number) == BitAnd(number + 1, number) = 0

\* int(number ** 0.5)
isqrt(number) == CHOOSE r \in 0 .. number : r * r <= number /\ (r + 1) * (r + 1) > number

is_prime(number) ==
    IF number <= 1 THEN FALSE
    ELSE \A divisor \in 2 .. isqrt(number) : number % divisor # 0

rename_valobj(valobj, name) == [valobj EXCEPT !.name = name]

\* Truth value of an optional string, an optional integer
TruthyStr(v) == v # None /\ v[1] # ""

TruthyInt(v) == v # None /\ v[1] # 0

\* A function decorated with Cache: what it computes depends on the process
\* it is called on and on where that process has stopped
func(proc, procs) == [proc |-> proc, stop |-> procs[proc].stop_id]

\* self.cache.get(uid)
CacheGet(c, uid) ==
    IF \E i \in DOMAIN c : c[i].uid = uid
    THEN Some(c[CHOOSE i \in DOMAIN c : c[i].uid = uid])
    ELSE None

\* self.cache[uid] = entry: a key the dict holds keeps its place
CachePut(c, uid, entry) ==
    IF \E i \in DOMAIN c : c[i].uid = uid
    THEN [i \in DOMAIN c |-> IF c[i].uid = uid THEN entry ELSE c[i]]
    ELSE Append(c, entry)

\* The entries the eviction loop leaves: those whose process has threads
Evicted(c, procs) == SelectSeq(c, LAMBDA e : procs[e.proc].threads # 0)

\* uid after `for uid, entry in list(self.cache.items())`: the loop variable
\* is the uid of the call, and ends as the last key of the dict
LoopUid(c, uid) == IF c = <<>> THEN uid ELSE c[Len(c)].uid

\* context = proc.GetStopID() in 'stop' mode, 0 otherwise
Context(mode, proc, procs) == IF mode = "stop" THEN procs[proc].stop_id ELSE 0

\* The rest of wrapped() once the stale data is evicted: c the dict, uid the
\* variable uid as the loop left it
Lookup(mode, c, uid, proc, procs) ==
    IF CacheGet(c, uid) # None /\ CacheGet(c, uid)[1].context = Context(mode, proc, procs)
    THEN [cache |-> c, ret |-> CacheGet(c, uid)[1].value]
    ELSE [cache |-> CachePut(c, uid, [uid |-> uid, proc |-> proc,
                                       context |-> Context(mode, proc, procs),
                                       value |-> func(proc, procs)]),
          ret |-> func(proc, procs)]

\* wrapped(obj) of Cache.__call__, obj of the process proc
wrapped(mode, c, lastUid, proc, procs) ==
    IF lastUid # Some(proc)
    THEN Lookup(mode, Evicted(c, procs), LoopUid(c, proc), proc, procs)
    ELSE Lookup(mode, c, proc, proc, procs)

----------------------------------------------------------------------------
(* libcxx.py: LibCXXHashContainer *)

\* self.table = self.valobj.GetChildMemberWithName("__table_")
Container_update(h, m) == [h EXCEPT !.table = m]

get_bucket_count(h) == h.table.bucket_count

validate(h) ==
    LET bucket_count == get_bucket_count(h) IN
    IF bucket_count # 0 /\ ~is_pow2(bucket_count) /\ ~is_prime(bucket_count)
    THEN Some("Bucket count " \o ToString(bucket_count) \o " is neither pow2 nor prime")
    ELSE None

get_size(h) == h.table.size

\* A generator over the chain: the cursor is the number of nodes walked
Container_iterator(h) == Some(0)

\* next(generator): the value of the next node, or StopIteration at the null link
HasNext(h) == h.iterator[1] < Len(h.table.nodes)

NextValue(h) == h.table.nodes[h.iterator[1] + 1]

----------------------------------------------------------------------------
(* libcxx.py: LibCXXHashContainer.iterator over the node links themselves *)

\* An address of the process that cannot be read
Unmapped == MaxElems + 1

\* What a __next_ field may hold: null, the address of a node, or an address
\* that cannot be read
Links == 0 .. Unmapped

\* The tables of a process by their links: __p1_ holds the link to the first
\* node, and every node holds the link to the one after it
LinkedTables ==
    {[bucket_count |-> b, first |-> f, next |-> n] :
        b \in BucketCounts, f \in Links, n \in [Addrs -> Links]}

\* next = first_node.GetChildMemberWithName("__next_")
Linked_iterator(h) == Some(h.table.first)

\* while next.GetValueAsUnsigned(0)
Linked_has_next(h) == h.iterator[1] # 0

\* node.GetChildMemberWithName("__next_"): a node that cannot be read has no
\* such member, and the value of the invalid link is read as 0
Linked_next(h) ==
    IF h.iterator[1] \in DOMAIN h.table.next THEN h.table.next[h.iterator[1]] ELSE 0

\* node.GetChildMemberWithName("__value_"), as a set yields it
Linked_value(h) == Element(h.iterator[1], None)

----------------------------------------------------------------------------
(* abseil.py: AbseilHashContainer *)

\* update() is empty: self.common reads the table where the process has it
Abseil_update(h, m) == [h EXCEPT !.table = m]

get_capacity(h) == h.table.capacity_

\* self.common.GetChildMemberWithName('size_').GetValueAsUnsigned() >> 1
Abseil_get_size(h) == h.table.size_ \div 2

\* validate() that does not compare the capacity with the size
AbseilValidateCapacityOnly(h) ==
    IF ~is_pow2(get_capacity(h))
    THEN Some("Capacity " \o ToString(get_capacity(h)) \o " is not pow2")
    ELSE None

Abseil_validate(h) ==
    LET capacity == get_capacity(h)
        sz == Abseil_get_size(h)
    IN  IF ~is_pow2(capacity)
        THEN Some("Capacity " \o ToString(capacity) \o " is not pow2")
        ELSE IF capacity < sz
             THEN Some("Size " \o ToString(sz) \o " exceeds capacity "
                       \o ToString(capacity))
             ELSE None

\* A generator over range(0, capacity): the cursor is the next index of the loop
Abseil_iterator(h) == Some(0)

\* ctrl & 0x80
HighBit(ctrl) == (ctrl \div 128) % 2 = 1

\* The generator that lets through the slots whose high bit is set
FullFromInverted(h, index) ==
    {i \in index .. get_capacity(h) - 1 : HighBit(h.table.control_[i + 1])}

\* The indices the loop still has to visit whose control byte lets them through
FullFrom(h, index) ==
    {i \in index .. get_capacity(h) - 1 : ~HighBit(h.table.control_[i + 1])}

\* The index at which the generator yields next
NextFull(h) == CHOOSE i \in FullFrom(h, h.iterator[1]) :
                   \A j \in FullFrom(h, h.iterator[1]) : i <= j

\* What the generator yields for a slot
Yielded(h, slot) ==
    IF h.table.is_flat
    THEN IF h.table.is_map THEN SlotValue(slot) ELSE slot
    ELSE SlotTarget(slot)

----------------------------------------------------------------------------
(* self.container.method(): the container is of one of the two classes *)

IsAbseil(t) == "capacity_" \in DOMAIN t

self_container_update(h, m) ==
    IF IsAbseil(m) THEN Abseil_update(h, m) ELSE Container_update(h, m)

self_container_validate(h) ==
    IF IsAbseil(h.table) THEN Abseil_validate(h) ELSE validate(h)

self_container_get_size(h) ==
    IF IsAbseil(h.table) THEN Abseil_get_size(h) ELSE get_size(h)

\* IterableContainer.get_summary, which both classes inherit
Container_get_summary(h) == "size=" \o ToString(self_container_get_size(h))

self_container_iterator(h) ==
    IF IsAbseil(h.table) THEN Abseil_iterator(h) ELSE Container_iterator(h)

\* next(self.iterator) yields a value (or raises StopIteration), the value,
\* and the cursor the generator is left with
self_iterator_has_next(h) ==
    IF IsAbseil(h.table) THEN FullFrom(h, h.iterator[1]) # {} ELSE HasNext(h)

self_iterator_value(h) ==
    IF IsAbseil(h.table) THEN Yielded(h, Slot(NextFull(h))) ELSE NextValue(h)

self_iterator_cursor(h) ==
    IF IsAbseil(h.table) THEN NextFull(h) + 1 ELSE h.iterator[1] + 1

----------------------------------------------------------------------------
(* What a method hands back: the objects' fields after it, its return value *)
(* and the exception it raised ("" when it returned)                        *)

Ret(h, v) == [h |-> h, ret |-> v, raised |-> ""]

Raise(h, e) == [h |-> h, ret |-> None, raised |-> e]

\* list[index] of Python: a negative index counts from the end
ListHas(list, index) == -Len(list) <= index /\ index < Len(list)

ListAt(list, index) == IF index >= 0 THEN list[index + 1] ELSE list[Len(list) + index + 1]

NoCalls == [iterator |-> 0, get_size |-> 0]

NoOp == [iterator |-> 0, get_size |-> 0, next |-> 0]

----------------------------------------------------------------------------
(* lib/iterable.py: IterableContainerSynthetic *)

Iterable_update(h, m) ==
    LET h1 == [h EXCEPT !.error = None, !.size = None, !.iterator = None,
                        !.cached_children = None, !.calls = NoCalls]
        \* Let underlying container update if it is stateful
        h2 == self_container_update(h1, m)
    IN  [h2 EXCEPT !.error = self_container_validate(h2)]

\* self.size = self.container.get_size()
ReadSize(h) ==
    [h EXCEPT !.size = Some(self_container_get_size(h)),
              !.calls.get_size = @ + 1, !.op.get_size = @ + 1]

\* num_children() without the early return on an error
NumChildrenIgnoringError(h) ==
    IF ~TruthyInt(h.size) THEN Ret(ReadSize(h), self_container_get_size(h))
    ELSE Ret(h, h.size[1])

Iterable_num_children(h) ==
    IF TruthyStr(h.error) THEN Ret(h, 0)
    ELSE LET h1 == IF ~TruthyInt(h.size) THEN ReadSize(h) ELSE h
         IN  Ret(h1, h1.size[1])

\* self.cached_children = list(); self.iterator = self.container.iterator()
StartIteration(h) ==
    [h EXCEPT !.cached_children = Some(<<>>), !.iterator = self_container_iterator(h),
              !.calls.iterator = @ + 1, !.op.iterator = @ + 1]

\* The try block: one next() of the iterator, appended to the cache, or
\* StopIteration, which drops the iterator
PullOne(h, cached) ==
    IF self_iterator_has_next(h)
    THEN LET child == IF h.rename_children
                      THEN rename_valobj(self_iterator_value(h),
                                         "[" \o ToString(cached) \o "]")
                      ELSE self_iterator_value(h)
         IN  [h EXCEPT !.cached_children = Some(Append(@[1], child)),
                       !.iterator = Some(self_iterator_cursor(h)), !.op.next = @ + 1]
    ELSE [h EXCEPT !.iterator = None, !.op.next = @ + 1]

\* if cached <= index and self.iterator is not None: try ... except StopIteration
Materialize(h, cached, index) ==
    IF cached <= index /\ h.iterator # None THEN PullOne(h, cached) ELSE h

\* if cached < index: return None; return self.cached_children[index]
\* (cached is the length of the cache at this point)
IndexCache(h, index) ==
    IF Len(h.cached_children[1]) < index THEN Ret(h, None)
    ELSE IF ListHas(h.cached_children[1], index)
         THEN Ret(h, Some(ListAt(h.cached_children[1], index)))
         ELSE Raise(h, "IndexError")

\* get_child_at_index() asking whether the iterator, not the cache, exists
\* before it starts an enumeration
GetChildRestarting(h, index) ==
    IF TruthyStr(h.error) THEN Ret(h, None)
    ELSE IF index < 0 THEN Ret(h, None)
    ELSE IF h.iterator # None
         THEN IndexCache(Materialize(h, Len(h.cached_children[1]), index), index)
         ELSE IndexCache(Materialize(StartIteration(h), 0, index), index)

\* cached = len(self.cached_children) of a cache that exists, or a new cache
\* and a new iterator
Iterable_get_child_at_index(h, index) ==
    IF TruthyStr(h.error) THEN Ret(h, None)
    ELSE IF index < 0 THEN Ret(h, None)
    ELSE IF h.cached_children # None
         THEN IndexCache(Materialize(h, Len(h.cached_children[1]), index), index)
         ELSE IndexCache(Materialize(StartIteration(h), 0, index), index)

Iterable_get_summary(h) ==
    IF TruthyStr(h.error) THEN Ret(h, "<Error: " \o h.error[1] \o ">")
    ELSE Ret([h EXCEPT !.op.get_size = @ + 1], Container_get_summary(h))

----------------------------------------------------------------------------
(* lib/sorting.py: SortingSyntheticAdapter over an IterableContainerSynthetic *)

\* Drilldown into trivial types: a value of a type of one field is replaced
\* by that field
Drilldown(valobj) ==
    IF "fields" \in DOMAIN valobj /\ Len(valobj.fields) = 1 THEN valobj.fields[1]
    ELSE valobj

\* The integer of a value of an integral basic type (held in its key field),
\* None for any other value
try_extract_natural_index(valobj) == Drilldown(valobj).key

\* SortingSyntheticAdapter.is_map: libcxx.py hands the adapter container.is_map
Sorting_is_map(h) == "is_map" \in DOMAIN h.table /\ h.table.is_map

\* key = self.is_map and child.GetChildMemberWithName('first') or child
MapKey(h, child) ==
    IF Sorting_is_map(h) /\ "first" \in DOMAIN child THEN child.first ELSE child

\* key.IsSynthetic()
IsSynthetic(valobj) == "synthetic" \in DOMAIN valobj /\ valobj.synthetic

\* A narrowing decided by whether the key was a value of an integral type itself
NarrowWhenDirect(h, child) ==
    IF Sorting_is_map(h) /\ MapKey(h, child).key # None THEN child.second ELSE child

\* if self.is_map: if not key.IsSynthetic(): child = child.GetChildMemberWithName('second')
Narrow(h, child) ==
    IF Sorting_is_map(h) /\ ~IsSynthetic(MapKey(h, child)) THEN child.second ELSE child

\* key.GetType().GetUnqualifiedType().GetName() of an integral key
Prefix == "int"

\* dict[k] = v
DictSet(d, k, v) == [x \in DOMAIN d \cup {k} |-> IF x = k THEN v ELSE d[x]]

\* An order that compares the addresses before the natural indices
AddressFirstLess(a, b) == a[2] < b[2] \/ (a[2] = b[2] /\ a[1] < b[1])

\* Order of Python on the (natural_index, address) tuples
TupleLess(a, b) == a[1] < b[1] \/ (a[1] = b[1] /\ a[2] < b[2])

\* The values of sorted(child_map.items())
RECURSIVE SortedValues(_)
SortedValues(d) ==
    IF DOMAIN d = {} THEN <<>>
    ELSE LET k == CHOOSE x \in DOMAIN d : \A y \in DOMAIN d : x = y \/ TupleLess(x, y)
         IN  <<d[k]>> \o SortedValues([x \in DOMAIN d \ {k} |-> d[x]])

\* One key per natural index, as a dict keyed by the natural index alone has
ChildKeyByIndex(natural_index, child) == <<natural_index, 0>>

\* (natural_index, child.GetLoadAddress())
ChildKey(natural_index, child) == <<natural_index, child.addr>>

\* update() that keeps the ordered child list
SortingUpdateKeepingChildren(h, m) == Iterable_update(h, m)

Sorting_update(h, m) == Iterable_update([h EXCEPT !.children = None], m)

\* Where the loop of populate() stands: the fields, the two collections, and
\* the exception that ended it
Loop(h, child_list, child_map, raised) ==
    [h |-> h, child_list |-> child_list, child_map |-> child_map, raised |-> raised]

\* src/hash_container_support.py, the revision in one file, stores the child
\* by its natural index alone: child_map[natural_index]
SingleFile_ChildKey(natural_index, child) == <<natural_index, 0>>

\* The key of child_map in the revision that runs
MapIndex(h, natural_index, child) ==
    IF h.single_file THEN SingleFile_ChildKey(natural_index, child)
    ELSE ChildKey(natural_index, child)

RECURSIVE PopulateLoop(_, _, _, _, _)
RECURSIVE PopulateBody(_, _, _, _, _)

\* The body of the for loop, r being what self.wrapped.get_child_at_index(iter_index)
\* handed back; a child of None fails in try_extract_natural_index
PopulateBody(r, iter_index, n, child_list, child_map) ==
    IF r.raised # "" THEN Loop(r.h, child_list, child_map, r.raised)
    ELSE IF r.ret = None THEN Loop(r.h, child_list, child_map, "AttributeError")
    ELSE LET child == r.ret[1]
             natural_index == try_extract_natural_index(MapKey(r.h, child))
         IN  IF natural_index = None
             THEN PopulateLoop(r.h, iter_index + 1, n,
                      Append(child_list,
                             rename_valobj(child, "[" \o ToString(iter_index) \o "]")),
                      child_map)
             ELSE PopulateLoop(r.h, iter_index + 1, n, child_list,
                      DictSet(child_map, MapIndex(r.h, natural_index[1], Narrow(r.h, child)),
                              rename_valobj(Narrow(r.h, child),
                                  Prefix \o "(" \o ToString(natural_index[1]) \o ")")))

\* for iter_index in range(iter_index, n)
PopulateLoop(h, iter_index, n, child_list, child_map) ==
    IF iter_index >= n THEN Loop(h, child_list, child_map, "")
    ELSE PopulateBody(Iterable_get_child_at_index(h, iter_index),
                      iter_index, n, child_list, child_map)

\* A flush that puts the natural index based children before the others
FlushNaturalFirst(l) ==
    IF l.raised # "" THEN Raise(l.h, l.raised)
    ELSE Ret([l.h EXCEPT !.children = Some(SortedValues(l.child_map) \o l.child_list)], None)

\* Flush delayed natural index based children; self.children = child_list
Flush(l) ==
    IF l.raised # "" THEN Raise(l.h, l.raised)
    ELSE Ret([l.h EXCEPT !.children = Some(l.child_list \o SortedValues(l.child_map))], None)

\* The loop over range(0, n.ret), n being what self.wrapped.num_children() handed back
PopulateRange(n) == Flush(PopulateLoop(n.h, 0, n.ret, <<>>, <<>>))

populate(h) ==
    IF h.children # None THEN Ret(h, None)
    ELSE PopulateRange(Iterable_num_children(h))

\* return self.children[index], p being what populate() handed back
IndexChildren(p, index) ==
    IF p.raised # "" THEN p
    ELSE IF ListHas(p.h.children[1], index)
         THEN Ret(p.h, Some(ListAt(p.h.children[1], index)))
         ELSE Raise(p.h, "IndexError")

Sorting_get_child_at_index(h, index) == IndexChildren(populate(h), index)

\* SyntheticAdapter.__getattr__: what the adapter does not define is the wrapped object's
Sorting_num_children(h) == Iterable_num_children(h)

Sorting_get_summary(h) == Iterable_get_summary(h)

----------------------------------------------------------------------------
(* lib/paging.py: PagingSyntheticAdapter over the sorting adapter *)

\* The limits the pager is constructed with, one fan-out per level
Limits == <<2, 2>>

\* The lists of limits the pager is walked with
LimitLists == {<<>>, <<2>>, <<3>>, <<2, 2>>, <<2, 3>>, <<3, 2>>, <<3, 3>>}

Min(a, b) == IF a <= b THEN a ELSE b

Max(a, b) == IF a >= b THEN a ELSE b

\* math.ceil(a / b) for b > 0
CeilDiv(a, b) == -((-a) \div b)

\* list[:k] of Python
Prefixed(list, k) ==
    IF k >= 0 THEN SubSeq(list, 1, Min(k, Len(list)))
    ELSE SubSeq(list, 1, Max(0, Len(list) + k))

RECURSIVE Product(_)
Product(list) == IF list = <<>> THEN 1 ELSE Head(list) * Product(Tail(list))

\* pager_capacity taking the limits from the far end of the list
PagerCapacityFromEnd(h, depth) ==
    IF depth < 0 THEN h.total
    ELSE Product(SubSeq(h.limits, depth + 1, h.levels))

pager_capacity(h, depth) ==
    IF depth < 0 THEN h.total
    ELSE Product(Prefixed(h.limits, h.levels - depth))

pager_num_children(h, depth, offset) ==
    LET contains == Min(h.total - offset, pager_capacity(h, depth - 1)) IN
    IF h.levels = depth THEN Ret(h, contains)
    ELSE Ret(h, CeilDiv(contains, pager_capacity(h, depth)))

\* create_scripted_value(self.valobj, name, backend): a value of the host's
\* own, named name, whose children the Pager backend serves
ScriptedValue(name, level, offset) ==
    [name |-> name, backend |-> [level |-> level, offset |-> offset]]

\* Largest number of ScriptedSynthetic objects
MaxSynthetics == 4

\* ScriptedSynthetic.__init__(valobj, dict), g the state of the module:
\* super().__init__(None), self.valobj = valobj, _scripted_stack.append(self)
ScriptedSynthetic_init(g, valobj) ==
    [g EXCEPT !.synthetics = Append(@, [valobj |-> valobj, wrapped |-> None]),
              !.stack = Append(@, Len(g.synthetics) + 1)]

\* _scripted_t is set on the first call, and target.CreateValueFromData
\* creates the value
ValueCreated(g, name, backend) ==
    [g EXCEPT !.t = Some("$lldb_toybox"),
              !.values = Append(@, ScriptedValue(name, backend.level, backend.offset))]

\* valobj.IsSynthetic(): the host constructs the ScriptedSynthetic of the
\* value that was just created
IsSyntheticAsked(g) == ScriptedSynthetic_init(g, Len(g.values))

\* synthetic = _scripted_stack.pop(); synthetic.wrapped = backend
Popped(g, backend) ==
    [g EXCEPT !.stack = SubSeq(@, 1, Len(@) - 1),
              !.synthetics[g.stack[Len(g.stack)]].wrapped = Some(backend)]

create_scripted_value(g, name, backend) ==
    Popped(IsSyntheticAsked(ValueCreated(g, name, backend)), backend)

\* pager_get_child_at_index() that does not scale the index by the capacity
PagerChildUnscaled(h, depth, offset, index) ==
    IF h.levels <= depth THEN Sorting_get_child_at_index(h, offset + index)
    ELSE LET capacity == pager_capacity(h, depth)
             first == offset + index
             lastIndex == Min(h.total, first + capacity - 1)
         IN  Ret(h, Some(ScriptedValue(
                 "#" \o ToString(first) \o " .. #" \o ToString(lastIndex),
                 depth + 1, first)))

pager_get_child_at_index(h, depth, offset, index) ==
    IF h.levels <= depth THEN Sorting_get_child_at_index(h, offset + index)
    ELSE LET capacity == pager_capacity(h, depth)
             first == offset + capacity * index
             lastIndex == Min(h.total, first + capacity - 1)
         IN  Ret(h, Some(ScriptedValue(
                 "#" \o ToString(first) \o " .. #" \o ToString(lastIndex),
                 depth + 1, first)))

\* The for loop of update(): the levels needed for remain elements
RECURSIVE LevelsLoop(_, _, _)
LevelsLoop(remain, n, rest) ==
    IF rest = <<>> THEN n
    ELSE IF remain <= Head(rest) THEN n
    ELSE LevelsLoop(CeilDiv(remain, Head(rest)), n + 1, Tail(rest))

\* self.total = n.ret, n being what self.wrapped.num_children() handed back,
\* and the levels for it
SetTotal(n) ==
    [n.h EXCEPT !.total = n.ret, !.levels = LevelsLoop(n.ret, 0, n.h.limits)]

Paging_update(h, m) == SetTotal(Sorting_num_children(Sorting_update(h, m)))

Paging_num_children(h) == pager_num_children(h, 0, 0)

Paging_get_child_at_index(h, index) == pager_get_child_at_index(h, 0, 0, index)

Paging_get_summary(h) == Sorting_get_summary(h)

----------------------------------------------------------------------------
(* The state machine: the host calls the provider it holds, the process runs *)

\* The assemblies: the lazy cache alone (renaming its children), the sorting
\* adapter over it as libcxx.py builds it, the pager over that
Stacks == {"iterable", "sorting", "paging"}

Heap ==
    [table |-> table, error |-> error, size |-> size, iterator |-> iterator,
     cached_children |-> cached_children, rename_children |-> stack = "iterable",
     children |-> children, total |-> total, levels |-> levels, limits |-> limits,
     calls |-> calls, op |-> NoOp, single_file |-> stack = "single_file"]

\* The fields before __init__ runs update()
Blank ==
    [table |-> None, error |-> None, size |-> None, iterator |-> None,
     cached_children |-> None, rename_children |-> FALSE,
     children |-> None, total |-> 0, levels |-> 0, limits |-> Limits,
     calls |-> NoCalls, op |-> NoOp, single_file |-> FALSE]

\* update() of the outermost provider of the assembly
Update(k, h, m) ==
    CASE k = "iterable" -> Iterable_update(h, m)
      [] k = "sorting" -> Sorting_update(h, m)
      [] k = "paging" -> Paging_update(h, m)
      [] k = "single_file" -> Sorting_update(h, m)

\* The call, what it returned by the type of the value (ret a value object
\* or None, count an int, text a str), the exception it raised, the calls it
\* made on the container, and for an update() whether the size, the lazy
\* cache and the ordered child list were all held when it was called
Called(name, index, r) ==
    [op |-> name, index |-> index,
     ret |-> IF name \in {"get_child_at_index", "Pager.get_child_at_index"}
             THEN r.ret ELSE None,
     count |-> IF name \in {"num_children", "Pager.num_children"} /\ r.raised = ""
               THEN r.ret ELSE -1,
     text |-> IF name = "get_summary" /\ r.raised = "" THEN r.ret ELSE "",
     raised |-> r.raised, made |-> r.h.op,
     dropped |-> name = "update"
                 /\ size # None /\ cached_children # None /\ children # None]

Install(h) ==
    /\ h.calls.get_size <= MaxCalls
    /\ table' = h.table
    /\ error' = h.error
    /\ size' = h.size
    /\ iterator' = h.iterator
    /\ cached_children' = h.cached_children
    /\ children' = h.children
    /\ total' = h.total
    /\ levels' = h.levels
    /\ limits' = h.limits
    /\ calls' = h.calls

\* The state of the modules that the providers do not write
Utils == <<processes, per, cache, Cache_last,
           scripted_t, scripted_stack, synthetics, scripted_values>>

Returned(name, index, r) ==
    /\ Install(r.h)
    /\ last' = Called(name, index, r)
    /\ UNCHANGED Utils

\* The modules are imported and the processes launched: a Cache holds nothing
Loaded ==
    /\ processes = [p \in Procs |-> [threads |-> 1, stop_id |-> 1]]
    /\ cache = <<>>
    /\ Cache_last = None
    /\ scripted_t = None
    /\ scripted_stack = <<>>
    /\ synthetics = <<>>
    /\ scripted_values = <<>>

\* The fields __init__ leaves, which ends in update()
Constructed(h) ==
    /\ Loaded
    /\ per = "process"
    /\ table = h.table
    /\ error = h.error
    /\ size = h.size
    /\ iterator = h.iterator
    /\ cached_children = h.cached_children
    /\ children = h.children
    /\ total = h.total
    /\ levels = h.levels
    /\ limits = h.limits
    /\ calls = h.calls
    /\ last = Called("__init__", 0, Ret(h, None))

Init ==
    /\ mem \in Tables
    /\ stack \in Stacks
    /\ Constructed(Update(stack, [Blank EXCEPT !.rename_children = stack = "iterable"], mem))

\* list with x put before position i
InsertAt(list, i, x) == SubSeq(list, 1, i - 1) \o <<x>> \o SubSeq(list, i, Len(list))

RemoveAt(list, i) == SubSeq(list, 1, i - 1) \o SubSeq(list, i + 1, Len(list))

\* What the process can make of its table while it runs: insert a node,
\* erase one, rehash to another bucket count
Steps(m) ==
    {[m EXCEPT !.nodes = InsertAt(@, i, Element(a, k)), !.size = @ + 1] :
        i \in 1 .. (IF Len(m.nodes) < MaxElems THEN Len(m.nodes) + 1 ELSE 0),
        a \in Addrs \ {e.addr : e \in Range(m.nodes)}, k \in Keys}
    \cup {[m EXCEPT !.nodes = RemoveAt(@, i), !.size = @ - 1] : i \in 1 .. Len(m.nodes)}
    \cup {[m EXCEPT !.bucket_count = b] : b \in BucketCounts \ {m.bucket_count}}

\* The process runs to its next stop, and the host updates the provider
Stop ==
    \E m \in Steps(mem) :
        /\ mem' = m
        /\ Returned("update", 0, Ret(Update(stack, Heap, m), None))
        /\ UNCHANGED stack

IterableUpdate ==
    /\ stack = "iterable"
    /\ Returned("update", 0, Ret(Iterable_update(Heap, mem), None))
    /\ UNCHANGED <<mem, stack>>

IterableNumChildren ==
    /\ stack = "iterable"
    /\ Returned("num_children", 0, Iterable_num_children(Heap))
    /\ UNCHANGED <<mem, stack>>

IterableGetChildAtIndex ==
    /\ stack = "iterable"
    /\ \E index \in Indices :
           Returned("get_child_at_index", index, Iterable_get_child_at_index(Heap, index))
    /\ UNCHANGED <<mem, stack>>

IterableGetSummary ==
    /\ stack = "iterable"
    /\ Returned("get_summary", 0, Iterable_get_summary(Heap))
    /\ UNCHANGED <<mem, stack>>

SortingUpdate ==
    /\ stack = "sorting"
    /\ Returned("update", 0, Ret(Sorting_update(Heap, mem), None))
    /\ UNCHANGED <<mem, stack>>

SortingNumChildren ==
    /\ stack = "sorting"
    /\ Returned("num_children", 0, Sorting_num_children(Heap))
    /\ UNCHANGED <<mem, stack>>

SortingGetChildAtIndex ==
    /\ stack = "sorting"
    /\ \E index \in Indices :
           Returned("get_child_at_index", index, Sorting_get_child_at_index(Heap, index))
    /\ UNCHANGED <<mem, stack>>

SortingGetSummary ==
    /\ stack = "sorting"
    /\ Returned("get_summary", 0, Sorting_get_summary(Heap))
    /\ UNCHANGED <<mem, stack>>

PagingUpdate ==
    /\ stack = "paging"
    /\ Returned("update", 0, Ret(Paging_update(Heap, mem), None))
    /\ UNCHANGED <<mem, stack>>

PagingNumChildren ==
    /\ stack = "paging"
    /\ Returned("num_children", 0, Paging_num_children(Heap))
    /\ UNCHANGED <<mem, stack>>

\* The host's last call handed out a sub-range node
HoldsNode ==
    /\ last.op \in {"get_child_at_index", "Pager.get_child_at_index"}
    /\ last.raised = ""
    /\ last.ret # None
    /\ "backend" \in DOMAIN last.ret[1]

\* The PagingSyntheticAdapter.Pager behind that node
Pager == last.ret[1].backend

PagingGetChildAtIndex ==
    /\ stack = "paging"
    /\ \E index \in Indices :
           Returned("get_child_at_index", index, Paging_get_child_at_index(Heap, index))
    /\ UNCHANGED <<mem, stack>>

PagingGetSummary ==
    /\ stack = "paging"
    /\ Returned("get_summary", 0, Paging_get_summary(Heap))
    /\ UNCHANGED <<mem, stack>>

\* Pager.num_children of the sub-range node the host was handed
PagerNumChildren ==
    /\ stack = "paging"
    /\ HoldsNode
    /\ Returned("Pager.num_children", 0, pager_num_children(Heap, Pager.level, Pager.offset))
    /\ UNCHANGED <<mem, stack>>

\* Pager.get_child_at_index of the sub-range node the host was handed
PagerGetChildAtIndex ==
    /\ stack = "paging"
    /\ HoldsNode
    /\ \E index \in Indices :
           Returned("Pager.get_child_at_index", index,
               pager_get_child_at_index(Heap, Pager.level, Pager.offset, index))
    /\ UNCHANGED <<mem, stack>>

Next ==
    \/ Stop
    \/ IterableUpdate
    \/ IterableNumChildren
    \/ IterableGetChildAtIndex
    \/ IterableGetSummary
    \/ SortingUpdate
    \/ SortingNumChildren
    \/ SortingGetChildAtIndex
    \/ SortingGetSummary
    \/ PagingUpdate
    \/ PagingNumChildren
    \/ PagingGetChildAtIndex
    \/ PagingGetSummary
    \/ PagerNumChildren
    \/ PagerGetChildAtIndex

Spec == Init /\ [][Next]_vars

\* The lazy cache alone, as a provider of its own
IterableNext ==
    \/ Stop
    \/ IterableUpdate
    \/ IterableNumChildren
    \/ IterableGetChildAtIndex
    \/ IterableGetSummary

IterableInit == Init /\ stack = "iterable"

IterableSpec == IterableInit /\ [][IterableNext]_vars

\* The pipeline of libcxx.py: the sorting adapter over the lazy cache
SortingNext ==
    \/ Stop
    \/ SortingUpdate
    \/ SortingNumChildren
    \/ SortingGetChildAtIndex
    \/ SortingGetSummary

SortingInit == Init /\ stack = "sorting"

SortingSpec == SortingInit /\ [][SortingNext]_vars

\* Tables of n nodes without natural indices, in 17 buckets
LongTable(n) ==
    [bucket_count |-> 17, size |-> n, nodes |-> [i \in 1 .. n |-> Element(i, None)]]

\* The process inserts a node at the end of the chain or erases the last one,
\* and the host updates the provider
WalkStop ==
    \E n \in {Len(mem.nodes) - 1, Len(mem.nodes) + 1} \cap (0 .. MaxTotal) :
        /\ mem' = LongTable(n)
        /\ Returned("update", 0, Ret(Paging_update(Heap, LongTable(n)), None))
        /\ UNCHANGED stack

\* The pager, constructed with a list of limits, over the pipeline on a table
\* of up to MaxTotal nodes
WalkNext ==
    \/ WalkStop
    \/ PagingUpdate
    \/ PagingNumChildren
    \/ PagingGetChildAtIndex
    \/ PagingGetSummary
    \/ PagerNumChildren
    \/ PagerGetChildAtIndex

WalkInit ==
    /\ mem \in {LongTable(n) : n \in 0 .. MaxTotal}
    /\ stack = "paging"
    /\ \E l \in LimitLists : Constructed(Paging_update([Blank EXCEPT !.limits = l], mem))

WalkSpec == WalkInit /\ [][WalkNext]_vars

\* What the process can make of an open addressing table while it runs: fill,
\* empty or delete a slot, or store another size
AbseilSteps(m) ==
    {n \in {[m EXCEPT !.control_[i] = b] :
                i \in 1 .. (IF m.capacity_ <= MaxSlots THEN m.capacity_ ELSE 0),
                b \in CtrlBytes} : n # m}
    \cup {[m EXCEPT !.size_ = z] : z \in SizeFields \ {m.size_}}

\* The process runs to its next stop, and the host updates the provider
AbseilStop ==
    \E m \in AbseilSteps(mem) :
        /\ mem' = m
        /\ Returned("update", 0, Ret(Update(stack, Heap, m), None))
        /\ UNCHANGED stack

\* The lazy cache over an open addressing table
AbseilNext ==
    \/ AbseilStop
    \/ IterableUpdate
    \/ IterableNumChildren
    \/ IterableGetChildAtIndex
    \/ IterableGetSummary

AbseilInit ==
    /\ mem \in AbseilTables
    /\ stack = "iterable"
    /\ Constructed(Update(stack, [Blank EXCEPT !.rename_children = TRUE], mem))

AbseilSpec == AbseilInit /\ [][AbseilNext]_vars

\* What the process can make of a map while it runs: insert a pair at the
\* head of the chain, or erase a node
MapSteps(m) ==
    {[m EXCEPT !.nodes = <<p>> \o @, !.size = @ + 1] : p \in FreshPairs(m.nodes)}
    \cup {[m EXCEPT !.nodes = RemoveAt(@, i), !.size = @ - 1] : i \in 1 .. Len(m.nodes)}

\* The process runs to its next stop, and the host updates the provider
MapStop ==
    \E m \in MapSteps(mem) :
        /\ mem' = m
        /\ Returned("update", 0, Ret(Update(stack, Heap, m), None))
        /\ UNCHANGED stack

\* The pipeline of libcxx.py over an unordered_map
MapNext ==
    \/ MapStop
    \/ SortingUpdate
    \/ SortingNumChildren
    \/ SortingGetChildAtIndex
    \/ SortingGetSummary

MapInit ==
    /\ mem \in MapTables
    /\ stack = "sorting"
    /\ Constructed(Update(stack, Blank, mem))

MapSpec == MapInit /\ [][MapNext]_vars

\* LibCXXHashContainerSynthetic of src/hash_container_support.py: the sorting
\* adapter of that revision over the lazy cache
SingleFileUpdate ==
    /\ stack = "single_file"
    /\ Returned("update", 0, Ret(Sorting_update(Heap, mem), None))
    /\ UNCHANGED <<mem, stack>>

SingleFileNumChildren ==
    /\ stack = "single_file"
    /\ Returned("num_children", 0, Sorting_num_children(Heap))
    /\ UNCHANGED <<mem, stack>>

SingleFileGetChildAtIndex ==
    /\ stack = "single_file"
    /\ \E index \in Indices :
           Returned("get_child_at_index", index, Sorting_get_child_at_index(Heap, index))
    /\ UNCHANGED <<mem, stack>>

SingleFileNext ==
    \/ Stop
    \/ SingleFileUpdate
    \/ SingleFileNumChildren
    \/ SingleFileGetChildAtIndex

SingleFileInit ==
    /\ mem \in Tables
    /\ stack = "single_file"
    /\ Constructed(Update(stack, [Blank EXCEPT !.single_file = TRUE], mem))

SingleFileSpec == SingleFileInit /\ [][SingleFileNext]_vars

\* The pager over the pipeline
PagingNext ==
    \/ Stop
    \/ PagingUpdate
    \/ PagingNumChildren
    \/ PagingGetChildAtIndex
    \/ PagingGetSummary
    \/ PagerNumChildren
    \/ PagerGetChildAtIndex

PagingInit == Init /\ stack = "paging"

PagingSpec == PagingInit /\ [][PagingNext]_vars

\* A loop that consumes the iterator of a table held by its links
Consumed(name, pulls, value, raised) ==
    [op |-> name, index |-> pulls, ret |-> value, count |-> -1, text |-> "",
     raised |-> raised, made |-> NoOp, dropped |-> FALSE]

\* container.iterator(): a fresh generator, once the one before it is used up
LinkedIterator ==
    /\ stack = "linked"
    /\ last.raised = "StopIteration"
    /\ iterator' = Linked_iterator([table |-> table])
    /\ last' = Consumed("iterator", 0, None, "")
    /\ UNCHANGED <<mem, stack, table, error, size, cached_children, children,
                   total, levels, limits, calls>>
    /\ UNCHANGED Utils

\* next(iterator): the generator runs to its next yield, or ends.  The loop
\* that consumes it keeps the count of its pulls, here modulo 2
LinkedPull ==
    /\ stack = "linked"
    /\ last.raised = ""
    /\ IF Linked_has_next([table |-> table, iterator |-> iterator])
       THEN /\ iterator' = Some(Linked_next([table |-> table, iterator |-> iterator]))
            /\ last' = Consumed("next", (last.index + 1) % 2,
                           Some(Linked_value([table |-> table, iterator |-> iterator])), "")
       ELSE /\ iterator' = iterator
            /\ last' = Consumed("next", (last.index + 1) % 2, None, "StopIteration")
    /\ UNCHANGED <<mem, stack, table, error, size, cached_children, children,
                   total, levels, limits, calls>>
    /\ UNCHANGED Utils

LinkedNext ==
    \/ LinkedIterator
    \/ LinkedPull

\* update() and iterator() have been called on a table of the process
LinkedInit ==
    /\ mem \in LinkedTables
    /\ stack = "linked"
    /\ table = mem
    /\ iterator = Linked_iterator([table |-> mem])
    /\ error = None
    /\ size = None
    /\ cached_children = None
    /\ children = None
    /\ total = 0
    /\ levels = 0
    /\ limits = Limits
    /\ calls = NoCalls
    /\ last = Consumed("iterator", 0, None, "")
    /\ Loaded
    /\ per = "process"

LinkedSpec == LinkedInit /\ [][LinkedNext]_vars

\* The loop that consumes the iterator does not stop on its own before the
\* generator ends
LinkedFairSpec == LinkedSpec /\ WF_vars(LinkedPull)

\* The providers at rest while the decorated function is called
Providers == <<mem, stack, table, error, size, iterator, cached_children,
               children, total, levels, limits, calls>>

\* The state of lib/scripted.py
Scripted == <<scripted_t, scripted_stack, synthetics, scripted_values>>

\* The decorated function is called on a process
CacheCall ==
    /\ stack = "cache"
    /\ \E proc \in Procs :
           /\ cache' = wrapped(per, cache, Cache_last, proc, processes).cache
           /\ Cache_last' = Some(proc)
           /\ last' = Consumed("wrapped", proc,
                           Some(wrapped(per, cache, Cache_last, proc, processes).ret), "")
    /\ UNCHANGED <<processes, per>>
    /\ UNCHANGED Scripted
    /\ UNCHANGED Providers

\* A process runs and stops again
ProcessStops ==
    /\ stack = "cache"
    /\ \E proc \in Procs :
           /\ processes[proc].threads # 0
           /\ processes[proc].stop_id < MaxStops
           /\ processes' = [processes EXCEPT ![proc].stop_id = @ + 1]
           /\ last' = Consumed("stop", proc, None, "")
    /\ UNCHANGED <<per, cache, Cache_last>>
    /\ UNCHANGED Scripted
    /\ UNCHANGED Providers

\* A process exits: it has no threads any more
ProcessExits ==
    /\ stack = "cache"
    /\ \E proc \in Procs :
           /\ processes[proc].threads # 0
           /\ processes' = [processes EXCEPT ![proc].threads = 0]
           /\ last' = Consumed("exit", proc, None, "")
    /\ UNCHANGED <<per, cache, Cache_last>>
    /\ UNCHANGED Scripted
    /\ UNCHANGED Providers

CacheNext ==
    \/ CacheCall
    \/ ProcessStops
    \/ ProcessExits

\* A function is decorated with Cache(per)
CacheInit ==
    /\ Loaded
    /\ per \in {"process", "stop"}
    /\ mem = LongTable(0)
    /\ stack = "cache"
    /\ table = None
    /\ iterator = None
    /\ error = None
    /\ size = None
    /\ cached_children = None
    /\ children = None
    /\ total = 0
    /\ levels = 0
    /\ limits = Limits
    /\ calls = NoCalls
    /\ last = Consumed("__init__", 0, None, "")

CacheSpec == CacheInit /\ [][CacheNext]_vars

\* The state of lib/scripted.py as one value
Globals ==
    [t |-> scripted_t, stack |-> scripted_stack, synthetics |-> synthetics,
     values |-> scripted_values]

\* The Pager backends a sub-range node is created for
Backends == {[level |-> 1, offset |-> 0], [level |-> 1, offset |-> 2], [level |-> 2, offset |-> 2]}

\* PagingSyntheticAdapter.pager_get_child_at_index creates a sub-range node:
\* create_scripted_value(self.valobj, name, self.Pager(self, depth + 1, first))
CreateScriptedValue ==
    /\ stack = "scripted"
    /\ Len(synthetics) < MaxSynthetics
    /\ \E backend \in Backends :
           /\ scripted_t' = create_scripted_value(Globals, "#" \o ToString(backend.offset), backend).t
           /\ scripted_stack' = create_scripted_value(Globals, "#" \o ToString(backend.offset), backend).stack
           /\ synthetics' = create_scripted_value(Globals, "#" \o ToString(backend.offset), backend).synthetics
           /\ scripted_values' = create_scripted_value(Globals, "#" \o ToString(backend.offset), backend).values
           /\ last' = Consumed("create_scripted_value", Len(scripted_values) + 1, None, "")
    /\ UNCHANGED <<processes, per, cache, Cache_last>>
    /\ UNCHANGED Providers

\* The host constructs a ScriptedSynthetic of its own accord for a value that
\* was created before: its formatters changed, or the value is shown again
HostConstructs ==
    /\ stack = "scripted"
    /\ Len(synthetics) < MaxSynthetics
    /\ \E valobj \in DOMAIN scripted_values :
           /\ scripted_stack' = ScriptedSynthetic_init(Globals, valobj).stack
           /\ synthetics' = ScriptedSynthetic_init(Globals, valobj).synthetics
           /\ last' = Consumed("ScriptedSynthetic", valobj, None, "")
    /\ UNCHANGED <<scripted_t, scripted_values>>
    /\ UNCHANGED <<processes, per, cache, Cache_last>>
    /\ UNCHANGED Providers

ScriptedNext ==
    \/ CreateScriptedValue
    \/ HostConstructs

\* lib/scripted.py is imported
ScriptedInit ==
    /\ Loaded
    /\ per = "process"
    /\ mem = LongTable(0)
    /\ stack = "scripted"
    /\ table = None
    /\ iterator = None
    /\ error = None
    /\ size = None
    /\ cached_children = None
    /\ children = None
    /\ total = 0
    /\ levels = 0
    /\ limits = Limits
    /\ calls = NoCalls
    /\ last = Consumed("__init__", 0, None, "")

ScriptedSpec == ScriptedInit /\ [][ScriptedNext]_vars

----------------------------------------------------------------------------
(* The claims *)

\* validate() finds nothing wrong with the table of the process
ValidTable == validate([table |-> mem]) = None

\* The host's last call was get_child_at_index(i) on the outermost provider
AskedChild == last.op = "get_child_at_index"

\* The addresses of the values of a list
AddrsOf(list) == {list[i].addr : i \in DOMAIN list}

\* C1: on a valid table of N nodes the sorting adapter over the lazy cache
\* reports num_children() = N, its ordered child list holds each of the N
\* values exactly once, and get_child_at_index(i), 0 <= i < N, returns the
\* i-th entry of that list without raising.
C1_Permutation ==
    (stack = "sorting" /\ ValidTable) =>
        /\ (last.op = "num_children" => last.raised = "" /\ last.count = Len(mem.nodes))
        /\ (children # None =>
               /\ Len(children[1]) = Len(mem.nodes)
               /\ \A e \in Range(mem.nodes) :
                      Cardinality({i \in DOMAIN children[1] : children[1][i].addr = e.addr}) = 1)
        /\ ((AskedChild /\ 0 <= last.index /\ last.index < Len(mem.nodes)) =>
               /\ last.raised = ""
               /\ children # None
               /\ last.ret = Some(children[1][last.index + 1]))

\* C1 witness: three nodes stored against the order of their addresses, two
\* sharing the natural index 5 and one without a natural index, all listed,
\* and the last of them just returned.
C1_Witness ==
    /\ stack = "sorting"
    /\ ValidTable
    /\ Len(mem.nodes) = 3
    /\ mem.nodes[1].addr > mem.nodes[2].addr
    /\ mem.nodes[1].key = Some(5)
    /\ mem.nodes[2].key = None
    /\ mem.nodes[3].key = Some(5)
    /\ AskedChild
    /\ last.index = 2
    /\ last.raised = ""
    /\ last.ret # None
    /\ children # None
    /\ Len(children[1]) = 3

\* C2: on a lazy cache without an error, one get_child_at_index(i) with
\* 0 <= i < N returns the i-th value of the iteration order, whatever the
\* cache held when it was called.
C2_SingleCall ==
    (stack = "iterable" /\ ValidTable /\ AskedChild
         /\ 0 <= last.index /\ last.index < Len(mem.nodes)) =>
        /\ last.raised = ""
        /\ last.ret # None
        /\ last.ret[1].addr = mem.nodes[last.index + 1].addr

\* C3: two consecutive get_child_at_index(i) on the lazy cache return equal
\* results, and a call for an index the cache already holds makes no next()
\* on the iterator.
C3_Idempotent ==
    [][(stack = "iterable" /\ last'.op = "get_child_at_index") =>
          /\ ((AskedChild /\ last'.index = last.index) =>
                 (last'.ret = last.ret /\ last'.raised = last.raised))
          /\ ((cached_children # None /\ 0 <= last'.index
                  /\ last'.index < Len(cached_children[1])) =>
                 last'.made.next = 0)]_vars

\* C4: get_child_at_index(i) of the lazy cache with i >= N returns None and
\* raises nothing, after any earlier calls.
C4_OutOfRange ==
    (stack = "iterable" /\ ValidTable /\ AskedChild /\ last.index >= Len(mem.nodes)) =>
        (last.raised = "" /\ last.ret = None)

\* C5: on a valid table of size 0 the pipeline reports num_children() = 0,
\* get_child_at_index(0) returns None without raising, and the container's
\* iterator is neither created nor advanced.
C5_Empty ==
    (stack = "sorting" /\ ValidTable /\ mem.size = 0) =>
        /\ (last.op = "num_children" => last.raised = "" /\ last.count = 0)
        /\ ((AskedChild /\ last.index = 0) => (last.raised = "" /\ last.ret = None))
        /\ calls.iterator = 0
        /\ last.made.iterator = 0
        /\ last.made.next = 0

\* The message validate() has for the table of the process
ErrorOfTable == validate([table |-> mem])

\* C6: while validate() reported an error at the last update(), the lazy
\* cache answers num_children() = 0, get_child_at_index(i) = None for every
\* i and get_summary() = "<Error: message>", and makes no iterator() and no
\* get_size() call on the container; without an error get_summary() is the
\* container's "size=n".
C6_ErrorForwarded ==
    stack = "iterable" =>
        /\ error = ErrorOfTable
        /\ (~ValidTable =>
               /\ (last.op = "num_children" => last.raised = "" /\ last.count = 0)
               /\ (AskedChild => last.raised = "" /\ last.ret = None)
               /\ (last.op = "get_summary" =>
                      /\ last.raised = ""
                      /\ last.text = "<Error: " \o ErrorOfTable[1] \o ">")
               /\ calls = NoCalls
               /\ last.made = NoOp
               /\ size = None /\ iterator = None /\ cached_children = None)
        /\ ((ValidTable /\ last.op = "get_summary") =>
               /\ last.raised = ""
               /\ last.text = "size=" \o ToString(mem.size))

\* C6 witness: a table of two nodes and bucket count 6, which validate()
\* refuses, has just been asked for its number of children and said 0.
C6_Witness ==
    /\ stack = "iterable"
    /\ mem.bucket_count = 6
    /\ error # None
    /\ Len(mem.nodes) = 2
    /\ last.op = "num_children"
    /\ last.count = 0
    /\ calls = NoCalls

\* C7: while validate() reports an error, no query on the sorting adapter
\* over the lazy cache raises: num_children() is 0, get_child_at_index(i)
\* with i >= 0 is None, get_summary() returns.
C7_NeverRaises ==
    (stack = "sorting" /\ ~ValidTable /\ (AskedChild => last.index >= 0)) =>
        /\ last.raised = ""
        /\ (last.op = "num_children" => last.count = 0)
        /\ (AskedChild => last.ret = None)

\* The elements of a list of children are nodes of the table of the process,
\* each at most once
FromTable(list) ==
    /\ \A i \in DOMAIN list :
           \E e \in Range(mem.nodes) : e.addr = list[i].addr /\ e.key = list[i].key
    /\ Cardinality(AddrsOf(list)) = Len(list)

\* C8: under the pager, after any interleaving of update() and queries,
\* every field of every layer and every value, count and summary returned
\* comes from the table as it is since the last update(): the table is the
\* process's, the error is validate() of it, the size, the lazy cache, the
\* ordered child list, the total and the levels are computed from it, and
\* an update() leaves no lazy cache, no iterator and no child list.
C8_UpdateDiscards ==
    stack = "paging" =>
        /\ table = mem
        /\ error = ErrorOfTable
        /\ (size # None => size[1] = mem.size)
        /\ (cached_children # None =>
               /\ Len(cached_children[1]) <= Len(mem.nodes)
               /\ \A i \in DOMAIN cached_children[1] :
                      cached_children[1][i] = mem.nodes[i])
        /\ (iterator # None => cached_children # None /\ iterator[1] = Len(cached_children[1]))
        /\ (children # None => FromTable(children[1]))
        /\ total = (IF ValidTable THEN mem.size ELSE 0)
        /\ limits = Limits
        /\ levels = LevelsLoop(total, 0, limits)
        /\ (last.op = "update" =>
               cached_children = None /\ iterator = None /\ children = None)
        /\ ((last.op \in {"get_child_at_index", "Pager.get_child_at_index"}
                /\ last.ret # None /\ "addr" \in DOMAIN last.ret[1]) =>
               FromTable(last.ret))
        /\ (last.op = "num_children" =>
               last.count = (IF levels = 0 THEN total
                             ELSE CeilDiv(total, Product(Prefixed(limits, levels)))))
        /\ (last.op = "get_summary" =>
               last.text = (IF ValidTable THEN "size=" \o ToString(mem.size)
                            ELSE "<Error: " \o ErrorOfTable[1] \o ">"))

\* C8 witness: an update() of the pager which found the size, a lazy cache
\* and an ordered child list of the table before, and left none of the
\* caches.
C8_Witness ==
    /\ stack = "paging"
    /\ last.op = "update"
    /\ last.dropped
    /\ cached_children = None
    /\ iterator = None
    /\ children = None
    /\ Len(mem.nodes) >= 1

\* C9: between two update() calls the lazy cache calls container.iterator()
\* at most once: an enumeration exists exactly when that call was made, and
\* no call both finds a cache and starts an iterator.
C9_OneIterator ==
    stack = "iterable" =>
        /\ calls.iterator <= 1
        /\ (calls.iterator = 1 <=> cached_children # None)
        /\ (iterator # None => calls.iterator = 1)
        /\ last.made.iterator <= 1

\* C9 witness: the iterator of a table of two nodes is exhausted, one
\* iterator() call was made since the update, and the get_child_at_index(1)
\* just answered from the cache made none.
C9_Witness ==
    /\ stack = "iterable"
    /\ Len(mem.nodes) = 2
    /\ cached_children # None
    /\ Len(cached_children[1]) = 2
    /\ iterator = None
    /\ calls.iterator = 1
    /\ AskedChild
    /\ last.index = 1
    /\ last.raised = ""
    /\ last.ret # None
    /\ last.made.iterator = 0

\* C10: between two update() calls the lazy cache reads container.get_size()
\* at most once for num_children(), whatever the size is.
C10_Memoized == stack = "iterable" => calls.get_size <= 1

\* C11: get_child_at_index(i) with i < 0 returns no element, on the lazy
\* cache and on the sorting adapter over it, whatever the table holds.
C11_Negative ==
    (stack \in {"iterable", "sorting"} /\ AskedChild /\ last.index < 0) =>
        last.ret = None

\* n is 1, 2, 4, 8, ...
PowerOfTwo(n) == \E k \in 0 .. n : 2 ^ k = n

\* n has no divisor but 1 and itself
Prime(n) == n > 1 /\ \A d \in 2 .. n - 1 : n % d # 0

\* C12: validate() of the chained table reports an error exactly when the
\* bucket count is not zero, not a power of two and not a prime.
C12_Validate ==
    (stack = "iterable" /\ ~IsAbseil(mem)) =>
        (error # None <=>
            (mem.bucket_count # 0 /\ ~PowerOfTwo(mem.bucket_count)
                 /\ ~Prime(mem.bucket_count)))

\* C13: validate() of the open addressing table returns None only if the
\* capacity is at least the size (the size_ field shifted right by one); with
\* a capacity under the size, and with a capacity of 8, it returns a message
\* that is not empty and num_children() of the lazy cache is 0.
C13_Capacity ==
    (stack = "iterable" /\ IsAbseil(mem)) =>
        /\ (error = None => mem.capacity_ >= mem.size_ \div 2)
        /\ ((mem.capacity_ < mem.size_ \div 2 \/ mem.capacity_ = 8) =>
               /\ error # None
               /\ error[1] # ""
               /\ (last.op = "num_children" => last.raised = "" /\ last.count = 0))

\* C13 witness: a table of capacity 3 storing the size 4 was asked for its
\* number of children and said 0.
C13_Witness ==
    /\ stack = "iterable"
    /\ IsAbseil(mem)
    /\ mem.capacity_ = 3
    /\ mem.size_ \div 2 = 4
    /\ error = Some("Size 4 exceeds capacity 3")
    /\ last.op = "num_children"
    /\ last.count = 0

\* The addresses of a list's values that have no natural index, in the order
\* of the list
RECURSIVE PlainAddrs(_)
PlainAddrs(list) ==
    IF list = <<>> THEN <<>>
    ELSE (IF Head(list).key = None THEN <<Head(list).addr>> ELSE <<>>)
         \o PlainAddrs(Tail(list))

\* C14: in the ordered child list every value without a natural index stands
\* before every value with one, and the values without one stand in the
\* order the table's iterator yields them.
C14_PlainFirst ==
    (stack = "sorting" /\ ValidTable /\ children # None) =>
        /\ \A i, j \in DOMAIN children[1] :
               (children[1][i].key = None /\ children[1][j].key # None) => i < j
        /\ PlainAddrs(children[1]) = PlainAddrs(mem.nodes)

\* C14 witness: the iterator yields a value with a natural index first and
\* then two without, the higher address first; all three are listed.
C14_Witness ==
    /\ stack = "sorting"
    /\ ValidTable
    /\ Len(mem.nodes) = 3
    /\ mem.nodes[1].key # None
    /\ mem.nodes[2].key = None
    /\ mem.nodes[3].key = None
    /\ mem.nodes[2].addr > mem.nodes[3].addr
    /\ children # None
    /\ Len(children[1]) = 3
    /\ children[1][3].addr = mem.nodes[1].addr

\* C15: the values with a natural index stand in the ordered child list in
\* strictly ascending order of (natural index, address), each named by its
\* natural index: the order is total and depends on the set of values only,
\* not on the order the iterator yields them in.
C15_NaturalOrder ==
    (stack = "sorting" /\ ValidTable /\ children # None) =>
        /\ \A i, j \in DOMAIN children[1] :
               (i < j /\ children[1][i].key # None /\ children[1][j].key # None) =>
                   \/ children[1][i].key[1] < children[1][j].key[1]
                   \/ /\ children[1][i].key[1] = children[1][j].key[1]
                      /\ children[1][i].addr < children[1][j].addr
        /\ \A i \in DOMAIN children[1] :
               children[1][i].key # None =>
                   children[1][i].name = "int(" \o ToString(children[1][i].key[1]) \o ")"

\* C15 witness: the set {5, 12, 5} in a table of 17 buckets, the 5 at the
\* higher address yielded first: the list shows the 5 at the lower address,
\* the other 5, then 12, and num_children() is 3.
C15_Witness ==
    /\ stack = "sorting"
    /\ mem.bucket_count = 17
    /\ Len(mem.nodes) = 3
    /\ mem.nodes[1].key = Some(5)
    /\ mem.nodes[2].key = Some(12)
    /\ mem.nodes[3].key = Some(5)
    /\ mem.nodes[1].addr > mem.nodes[3].addr
    /\ children # None
    /\ Len(children[1]) = 3
    /\ children[1][1].addr = mem.nodes[3].addr
    /\ children[1][2].addr = mem.nodes[1].addr
    /\ children[1][3].addr = mem.nodes[2].addr
    /\ size = Some(3)

\* The address and type of each value of a list
Shown(list) == [i \in DOMAIN list |-> <<list[i].addr, list[i].type>>]

\* What the claim expects of the slots from an index on: for each index whose
\* control byte is under 128, the slot's pair (flat map), the slot (flat set)
\* or what the slot points to (node storage)
RECURSIVE ExpectedFrom(_, _)
ExpectedFrom(t, index) ==
    IF index >= t.capacity_ THEN <<>>
    ELSE (IF t.control_[index + 1] < 128
          THEN <<IF ~t.is_flat THEN <<index + 101, "pointee">>
                 ELSE IF t.is_map THEN <<index + 1, "value_type">>
                 ELSE <<index + 1, "slot_type">>>>
          ELSE <<>>)
         \o ExpectedFrom(t, index + 1)

\* C20: what the lazy cache has pulled from iterator() of an open addressing
\* table is the start of the expected sequence, in ascending slot order one
\* value per slot whose control byte has the high bit clear, and is the whole
\* of it once the iterator is exhausted.
C20_Slots ==
    (stack = "iterable" /\ IsAbseil(mem) /\ cached_children # None) =>
        /\ Len(cached_children[1]) <= Len(ExpectedFrom(mem, 0))
        /\ Shown(cached_children[1])
               = SubSeq(ExpectedFrom(mem, 0), 1, Len(cached_children[1]))
        /\ (iterator = None => Len(cached_children[1]) = Len(ExpectedFrom(mem, 0)))
        /\ (iterator # None =>
               Len(cached_children[1]) + Len(ExpectedFrom(mem, iterator[1]))
                   = Len(ExpectedFrom(mem, 0)))

\* C20 witness: a flat map of capacity 3 whose first slot is deleted or empty
\* and whose other two are full, its iterator exhausted after two values.
C20_Witness ==
    /\ stack = "iterable"
    /\ IsAbseil(mem)
    /\ mem.capacity_ = 3
    /\ mem.is_flat
    /\ mem.is_map
    /\ mem.control_[1] >= 128
    /\ mem.control_[2] < 128
    /\ mem.control_[3] < 128
    /\ cached_children # None
    /\ Len(cached_children[1]) = 2
    /\ cached_children[1][1].addr = 2
    /\ iterator = None

\* What stands for a child the pager's tree failed to hand out
NoValue == [addr |-> 0, key |-> None, name |-> ""]

\* The values reached through the children index, index + 1, ... of the node
\* (depth, offset) of the pager's tree, depth first and left to right, and
\* through one child r handed out by pager_get_child_at_index
RECURSIVE Flatten(_, _, _, _)
RECURSIVE Visit(_, _)
Flatten(h, depth, offset, index) ==
    IF index >= pager_num_children(h, depth, offset).ret THEN <<>>
    ELSE Visit(h, pager_get_child_at_index(h, depth, offset, index))
         \o Flatten(h, depth, offset, index + 1)

Visit(h, r) ==
    IF r.raised # "" \/ r.ret = None THEN <<NoValue>>
    ELSE IF "backend" \in DOMAIN r.ret[1]
         THEN Flatten(h, r.ret[1].backend.level, r.ret[1].backend.offset, 0)
         ELSE r.ret

\* The ordered child list of the wrapped sorting adapter
Direct(h) == populate(h).h.children[1]

\* C16: the values reached through the pager's tree, depth first and left to
\* right from the root, are the children 0, 1, ..., N-1 of the wrapped
\* collection, in that order, each once.
C16_RoundTrip ==
    (stack = "paging" /\ ValidTable) =>
        /\ Len(Direct(Heap)) = Len(mem.nodes)
        /\ Flatten(populate(Heap).h, 0, 0, 0) = Direct(Heap)

\* C16 witness: over 9 nodes and the limits [2, 2] the host went down the
\* third group of the root to the last node of the table.
C16_Witness ==
    /\ stack = "paging"
    /\ Len(mem.nodes) = 9
    /\ limits = <<2, 2>>
    /\ levels = 2
    /\ last.op = "Pager.get_child_at_index"
    /\ last.index = 0
    /\ last.raised = ""
    /\ last.ret # None
    /\ "addr" \in DOMAIN last.ret[1]
    /\ last.ret[1].addr = 9

\* The largest limit of a list that is not empty
Largest(list) == CHOOSE x \in Range(list) : \A y \in Range(list) : y <= x

\* C17: num_children() of the root and of every sub-range node is at most
\* the largest of the configured limits.
C17_FanOut ==
    (stack = "paging" /\ limits # <<>>
         /\ last.op \in {"num_children", "Pager.num_children"}) =>
        last.count <= Largest(limits)

\* What remains of a total after it was divided, rounding up, by the first k limits
RECURSIVE Remaining(_, _, _)
Remaining(n, list, k) ==
    IF k = 0 THEN n ELSE Remaining(CeilDiv(n, Head(list)), Tail(list), k - 1)

\* C18: levels is the least number of divisions of the total by the limits
\* after which what remains is at or under the limit it meets (the last limit
\* when every limit was used): no division is made that was not needed, and
\* what remains fits.
C18_Levels ==
    stack = "paging" =>
        /\ levels \in 0 .. Len(limits)
        /\ \A k \in 0 .. levels - 1 : Remaining(total, limits, k) > limits[k + 1]
        /\ (limits # <<>> =>
               Remaining(total, limits, levels)
                   <= limits[IF levels < Len(limits) THEN levels + 1 ELSE Len(limits)])

\* C19: a sub-range node that starts inside the collection is named
\* "#first .. #last", first the index of its first element and last that of
\* its last, min(first + capacity, total) - 1, which is under the total.
C19_Label ==
    (stack = "paging" /\ last.op \in {"get_child_at_index", "Pager.get_child_at_index"}
         /\ last.ret # None /\ "backend" \in DOMAIN last.ret[1]
         /\ 0 <= last.ret[1].backend.offset /\ last.ret[1].backend.offset < total) =>
        last.ret[1].name =
            "#" \o ToString(last.ret[1].backend.offset) \o " .. #"
                \o ToString(Min(last.ret[1].backend.offset
                                    + pager_capacity(Heap, last.ret[1].backend.level - 1),
                                total) - 1)

\* C21: for every table that passes validate(), consuming the iterator to
\* exhaustion terminates: the generator ends after finitely many elements
C21_Terminates == ValidTable => <>(last.raised = "StopIteration")

\* The product of the first k limits of the pager
RECURSIVE FirstLimits(_)
FirstLimits(k) == IF k <= 0 THEN 1 ELSE limits[k] * FirstLimits(k - 1)

\* The product of the limits from depth d to the leaf: limits[d] to
\* limits[levels - 1], counting from 0
RECURSIVE LimitsToLeaf(_)
LimitsToLeaf(d) == IF d >= levels THEN 1 ELSE limits[d + 1] * LimitsToLeaf(d + 1)

\* The host asks the sub-range node it holds, a node above the leaves
AsksNode(name) ==
    /\ HoldsNode
    /\ Pager.level < levels
    /\ last'.op = name
    /\ last'.raised = ""

\* C22 as stated: the capacity at depth d is limits[d] * ... * limits[levels-1]:
\* a node above the leaves reports ceil(remaining / capacity) children, and
\* its child i starts capacity * i after its own start
C22_Capacity ==
    [][/\ AsksNode("Pager.num_children") =>
            last'.count = CeilDiv(Min(total - Pager.offset, LimitsToLeaf(Pager.level - 1)),
                                  LimitsToLeaf(Pager.level))
       /\ AsksNode("Pager.get_child_at_index") =>
            last'.ret[1].backend.offset = Pager.offset + LimitsToLeaf(Pager.level) * last'.index]_vars

\* C22 amended: the capacity at depth d is the product of the first
\* levels - d limits, limits[0] * ... * limits[levels-d-1]: a node above the
\* leaves reports ceil(remaining / capacity) children, and its child i starts
\* capacity * i after its own start
C22_CapacityAmended ==
    [][/\ AsksNode("Pager.num_children") =>
            last'.count = CeilDiv(Min(total - Pager.offset, FirstLimits(levels - Pager.level + 1)),
                                  FirstLimits(levels - Pager.level))
       /\ AsksNode("Pager.get_child_at_index") =>
            last'.ret[1].backend.offset = Pager.offset + FirstLimits(levels - Pager.level) * last'.index]_vars

\* The second child of a node of depth 1 under limits that differ by depth
C22_Witness ==
    /\ stack = "paging"
    /\ limits = <<2, 3>>
    /\ levels = 2
    /\ last.op = "Pager.get_child_at_index"
    /\ last.index = 1
    /\ last.raised = ""
    /\ last.ret # None
    /\ "backend" \in DOMAIN last.ret[1]
    /\ last.ret[1].backend.level = 2
    /\ last.ret[1].backend.offset = 8

\* The value a key yields its natural index through: the key itself, or its
\* only field
Unwrapped(key) == Drilldown(key) # key

\* The pairs of the table whose key yields a natural index
Indexed == {i \in DOMAIN mem.nodes : try_extract_natural_index(mem.nodes[i].first) # None}

\* The ordered child list holds the pair of a node, or its mapped value alone
ShowsPair(node) ==
    \E j \in DOMAIN children[1] :
        children[1][j].addr = node.addr /\ "first" \in DOMAIN children[1][j]

ShowsSecond(node) ==
    \E j \in DOMAIN children[1] :
        children[1][j].addr = node.second.addr /\ "first" \notin DOMAIN children[1][j]

\* C23 as stated: for a map element whose key yields a natural index, the
\* child shown is the mapped value alone exactly when the key was an integral
\* value itself, and the whole pair when the key had to be unwrapped
C23_Narrowed ==
    (stack = "sorting" /\ Sorting_is_map([table |-> mem]) /\ children # None) =>
        \A i \in Indexed :
            IF Unwrapped(mem.nodes[i].first)
            THEN ShowsPair(mem.nodes[i]) /\ ~ShowsSecond(mem.nodes[i])
            ELSE ShowsSecond(mem.nodes[i]) /\ ~ShowsPair(mem.nodes[i])

\* C23 amended: for a map element whose key yields a natural index, the
\* child shown is the mapped value alone exactly when the key has no
\* synthetic children provider, and the whole pair when it has one, whether
\* or not the key had to be unwrapped
C23_NarrowedAmended ==
    (stack = "sorting" /\ Sorting_is_map([table |-> mem]) /\ children # None) =>
        \A i \in Indexed :
            IF IsSynthetic(mem.nodes[i].first)
            THEN ShowsPair(mem.nodes[i]) /\ ~ShowsSecond(mem.nodes[i])
            ELSE ShowsSecond(mem.nodes[i]) /\ ~ShowsPair(mem.nodes[i])

\* A map of two elements whose keys both yield 5 through their only field,
\* one with a synthetic children provider and one without: the child list
\* holds the mapped value of the one without and the pair of the other
C23_Witness ==
    /\ stack = "sorting"
    /\ Sorting_is_map([table |-> mem])
    /\ Len(mem.nodes) = 2
    /\ Indexed = {1, 2}
    /\ Unwrapped(mem.nodes[1].first)
    /\ Unwrapped(mem.nodes[2].first)
    /\ ~IsSynthetic(mem.nodes[1].first)
    /\ IsSynthetic(mem.nodes[2].first)
    /\ children # None
    /\ Len(children[1]) = 2
    /\ ShowsSecond(mem.nodes[1])
    /\ ShowsPair(mem.nodes[2])
    /\ last.op = "get_child_at_index"
    /\ last.raised = ""

\* C24: in the revision in one file the sorting adapter keeps every element:
\* the child list has num_children() entries even when elements share a
\* natural index, and get_child_at_index(i) returns an element for every
\* 0 <= i < num_children()
C24_KeepsAll ==
    (stack = "single_file" /\ ValidTable /\ children # None) =>
        /\ Len(children[1]) = Len(mem.nodes)
        /\ (AskedChild /\ 0 <= last.index /\ last.index < Len(mem.nodes)) =>
               last.raised = "" /\ last.ret # None

\* C25: a decorated function called on a process returns a value computed by
\* a call on that same process, and in 'stop' mode one computed at the stop
\* id the process has; never a value cached for another process
C25_OwnValue ==
    (stack = "cache" /\ last.op = "wrapped") =>
        /\ last.ret[1].proc = last.index
        /\ per = "stop" => last.ret[1].stop = processes[last.index].stop_id

\* C26: create_scripted_value pops the ScriptedSynthetic pushed during the
\* call and leaves the stack as long as it was, so that a backend is bound to
\* the synthetic of its own node and no ScriptedSynthetic is left without a
\* backend, whatever the calls and the constructions the host makes itself
C26_Bound ==
    [][stack = "scripted" =>
          /\ last'.op = "create_scripted_value" =>
                 /\ Len(scripted_stack') = Len(scripted_stack)
                 /\ synthetics'[Len(synthetics')].valobj = last'.index
                 /\ synthetics'[Len(synthetics')].wrapped # None
          /\ \A o \in DOMAIN synthetics' :
                 /\ synthetics'[o].wrapped # None
                 /\ synthetics'[o].wrapped[1] = scripted_values'[synthetics'[o].valobj].backend]_vars

====
